---------------------------- MODULE Spec2Model ----------------------------
(***************************************************************************)
(* libbsdf: the 2-axis sample grid (SampleSet2D), the Sampler dispatch and *)
(* the helpers of Utility.h they use.                                      *)
(*                                                                         *)
(* Build modelled: assertions enabled (no NDEBUG); a failed assert aborts  *)
(* the process (life = "aborted").                                         *)
(*                                                                         *)
(* Numbers.  Angles are counted in units of pi/48, so that pi/2 = 24 and   *)
(* 2*pi = 96 and the evenly spaced axes of up to 5 points are exact.       *)
(* Spectral values are integer-valued floats; sums and differences are     *)
(* rounded to the 24-bit significand of a C++ float (Fl).  Blend weights   *)
(* are fractions num/den.                                                  *)
(***************************************************************************)
EXTENDS Integers, Sequences, FiniteSets

VARIABLES
    life,                 \* "none" before the constructor, "ok", "aborted"
    colorModel_,
    thetaAngles_,
    phiAngles_,
    spectra_,             \* std::vector<Spectrum>: a sequence of sequences
    wavelengths_,
    equalIntervalTheta_,
    equalIntervalPhi_,
    last,                 \* the last SampleSet2D operation and its arguments
    call                  \* the last Sampler query and the calls it made

vars == << life, colorModel_, thetaAngles_, phiAngles_, spectra_, wavelengths_,
           equalIntervalTheta_, equalIntervalPhi_, last, call >>

---------------------------------------------------------------------------
(* Bounds of the model *)

MaxAxis == 2

MaxWavelengths == 2

---------------------------------------------------------------------------
(* Program constants *)

\* SphericalCoordinateSystem::MAX_ANGLE0 = pi/2, in units of pi/48
MAX_ANGLE0 == 24

\* SphericalCoordinateSystem::MAX_ANGLE1 = 2*pi, in units of pi/48
MAX_ANGLE1 == 96

\* A coefficient that Eigen's resize() allocated and nothing has written:
\* its value is indeterminate.
Uninit == -1000000

ColorModels == {"MONOCHROMATIC_MODEL", "RGB_MODEL", "XYZ_MODEL", "SPECTRAL_MODEL"}

AxisArgs == (0 - 1) .. MaxAxis

WavelengthArgs == (0 - 1) .. MaxWavelengths

---------------------------------------------------------------------------
(* Containers *)

Min(a, b) == IF a < b THEN a ELSE b

Max(a, b) == IF a > b THEN a ELSE b

IntMul_sum(a, b) == a + b

\* int * int of resizeAngles and the constructor (no overflow inside the
\* bounds of the model)
IntMul(a, b) == a * b

\* Eigen::Array::resize(n): a no-op when the size is unchanged, otherwise a
\* fresh buffer of n unwritten coefficients.
EigenResize(arr, n) ==
    IF Len(arr) = n THEN arr ELSE [i \in 1 .. n |-> Uninit]

\* std::vector<Spectrum>::resize(n): the first min(old, n) elements are kept,
\* added elements are default-constructed (empty) spectra.
VectorResize(vec, n) ==
    [i \in 1 .. n |-> IF i <= Len(vec) THEN vec[i] ELSE << >>]

\* Arrayf::LinSpaced(size, low, high); a single coefficient is high.
LinSpaced(size, low, high) ==
    [i \in 1 .. size |->
        IF size = 1 THEN high
        ELSE low + ((i - 1) * (high - low)) \div (size - 1)]

\* Arrayf::Zero(n)
Zero(n) == [i \in 1 .. n |-> 0]

\* A default-constructed Spectrum after resize(n)
NewSpectrum(n) == EigenResize(<< >>, n)

\* isEqualInterval(array): every step equals the first one.
isEqualInterval(arr) ==
    /\ Len(arr) >= 2
    /\ \A i \in 1 .. Len(arr) : arr[i] # Uninit
    /\ \A i \in 1 .. Len(arr) - 1 : arr[i + 1] - arr[i] = arr[2] - arr[1]

\* clamp of Utility.h: max(minValue, min(maxValue, value))
clamp(value, minValue, maxValue) == Max(minValue, Min(maxValue, value))

ClampCoeff_noUpper(v, lo, hi) == IF v = Uninit THEN Uninit ELSE Max(v, lo)

ClampCoeff_boundsSwapped(v, lo, hi) ==
    IF v = Uninit THEN Uninit ELSE Max(Min(v, lo), hi)

\* cwiseMax(lo) then cwiseMin(hi) on one coefficient; an indeterminate
\* coefficient stays indeterminate.
ClampCoeff(v, lo, hi) == IF v = Uninit THEN Uninit ELSE Min(Max(v, lo), hi)

\* The significand of a C++ float holds 24 bits: every integer below 2^24
\* is a float.
FloatExact == 16777216

\* The spacing of the floats around a value of magnitude a (a < 2^31).
Quantum(a) ==
    IF a < FloatExact THEN 1
    ELSE IF a < 2 * FloatExact THEN 2
    ELSE IF a < 4 * FloatExact THEN 4
    ELSE IF a < 8 * FloatExact THEN 8
    ELSE IF a < 16 * FloatExact THEN 16
    ELSE IF a < 32 * FloatExact THEN 32
    ELSE IF a < 64 * FloatExact THEN 64
    ELSE 128

Abs(x) == IF x < 0 THEN 0 - x ELSE x

\* Rounding of an exact result to the nearest float, ties to the even
\* significand.
Fl(x) ==
    LET a  == Abs(x)
        q  == Quantum(a)
        lo == (a \div q) * q
        r  == a - lo
        m  == IF 2 * r < q THEN lo
              ELSE IF 2 * r > q THEN lo + q
              ELSE IF (lo \div q) % 2 = 0 THEN lo ELSE lo + q
    IN IF x < 0 THEN 0 - m ELSE m

\* d * (num / den) for a weight num/den in [0, 1], without leaving the
\* integers of the model checker.
MulWeight(d, t) ==
    LET a == Abs(d)
        m == (a \div t.den) * t.num + ((a % t.den) * t.num) \div t.den
    IN IF d < 0 THEN 0 - m ELSE m

\* A spectrum a builder has written: not empty, every coefficient defined.
Written(sp) == Len(sp) > 0 /\ \A k \in 1 .. Len(sp) : sp[k] # Uninit

NonSpectral(colorModel) ==
    colorModel # "MONOCHROMATIC_MODEL" /\ colorModel # "SPECTRAL_MODEL"

NoOp == [op |-> "none", numTheta |-> 0, numPhi |-> 0, colorModel |-> "none",
         numWavelengths |-> 0]

Vec3(x, y, z) == [x |-> x, y |-> y, z |-> z]

NoCall == [fn |-> "none", inDir |-> Vec3(0, 0, 0), aborted |-> FALSE, iso |-> FALSE,
           conv |-> "none", angles |-> << >>, interpFn |-> "none",
           interp |-> << >>, wavelengthIndex |-> 0, out |-> << >>]

---------------------------------------------------------------------------
(* SampleSet2D *)

Init ==
    /\ life = "none"
    /\ colorModel_ = "none"
    /\ thetaAngles_ = << >>
    /\ phiAngles_ = << >>
    /\ spectra_ = << >>
    /\ wavelengths_ = << >>
    /\ equalIntervalTheta_ = FALSE
    /\ equalIntervalPhi_ = FALSE
    /\ last = NoOp
    /\ call = NoCall

EffectiveWavelengths_asRequested(colorModel, numWavelengths) == numWavelengths

\* The wavelength count the constructor uses (lines 43-48).
EffectiveWavelengths(colorModel, numWavelengths) ==
    IF colorModel = "MONOCHROMATIC_MODEL" THEN 1
    ELSE IF colorModel # "SPECTRAL_MODEL" THEN 3
    ELSE numWavelengths

\* SampleSet2D::SampleSet2D
Constructor(numTheta, numPhi, colorModel, numWavelengths, equalIntervalAngles) ==
    LET numSamples == IntMul(numTheta, numPhi)
        theta == IF equalIntervalAngles
                 THEN LinSpaced(numTheta, 0, MAX_ANGLE0)
                 ELSE EigenResize(<< >>, numTheta)
        phi   == IF equalIntervalAngles
                 THEN LinSpaced(numPhi, 0, MAX_ANGLE1)
                 ELSE EigenResize(<< >>, numPhi)
        nw    == EffectiveWavelengths(colorModel, numWavelengths)
        op    == [op |-> "constructor", numTheta |-> numTheta, numPhi |-> numPhi,
                  colorModel |-> colorModel, numWavelengths |-> numWavelengths,
                  equalIntervalAngles |-> equalIntervalAngles]
    IN
    /\ life = "none"
    /\ last' = op
    /\ call' = call
    /\ IF ~(numTheta > 0 /\ numPhi > 0)
       THEN \* assert, line 26
            /\ life' = "aborted"
            /\ UNCHANGED << colorModel_, thetaAngles_, phiAngles_, spectra_,
                            wavelengths_, equalIntervalTheta_, equalIntervalPhi_ >>
       ELSE /\ colorModel_' = colorModel
            /\ thetaAngles_' = theta
            /\ phiAngles_' = phi
            /\ equalIntervalTheta_' = (equalIntervalAngles /\ isEqualInterval(theta))
            /\ equalIntervalPhi_' = (equalIntervalAngles /\ isEqualInterval(phi))
            /\ IF ~(nw > 0)
               THEN \* assert, line 50: the cell array is sized, nothing is filled
                    /\ life' = "aborted"
                    /\ spectra_' = VectorResize(<< >>, numSamples)
                    /\ wavelengths_' = << >>
               ELSE /\ life' = "ok"
                    /\ spectra_' = [i \in 1 .. numSamples |-> NewSpectrum(nw)]
                    /\ wavelengths_' =
                          IF colorModel # "SPECTRAL_MODEL"
                          THEN Zero(nw)
                          ELSE EigenResize(<< >>, nw)

Construct ==
    /\ life = "none"
    /\ \E numTheta \in AxisArgs, numPhi \in AxisArgs, colorModel \in ColorModels,
          numWavelengths \in WavelengthArgs, equalIntervalAngles \in BOOLEAN :
          Constructor(numTheta, numPhi, colorModel, numWavelengths,
                      equalIntervalAngles)

\* SampleSet2D::resizeAngles
resizeAngles(numTheta, numPhi) ==
    LET numSamples == IntMul(numTheta, numPhi)
        op == [op |-> "resizeAngles", numTheta |-> numTheta, numPhi |-> numPhi,
               colorModel |-> colorModel_, numWavelengths |-> 0]
    IN
    /\ life = "ok"
    /\ last' = op
    /\ call' = call
    /\ UNCHANGED << colorModel_, wavelengths_, equalIntervalTheta_, equalIntervalPhi_ >>
    /\ IF ~(numTheta > 0 /\ numPhi > 0)
       THEN /\ life' = "aborted"
            /\ UNCHANGED << thetaAngles_, phiAngles_, spectra_ >>
       ELSE /\ life' = "ok"
            /\ spectra_' = VectorResize(spectra_, numSamples)
            /\ thetaAngles_' = EigenResize(thetaAngles_, numTheta)
            /\ phiAngles_' = EigenResize(phiAngles_, numPhi)

ResizeAngles ==
    /\ life = "ok"
    /\ \E numTheta \in AxisArgs, numPhi \in AxisArgs : resizeAngles(numTheta, numPhi)

ResizedCells_offByOne == Len(thetaAngles_) * Len(phiAngles_) - 1

\* The cells resizeWavelengths rewrites: i < thetaAngles_.size() * phiAngles_.size()
ResizedCells == Len(thetaAngles_) * Len(phiAngles_)

\* SampleSet2D::resizeWavelengths.  spectra_.at(i) throws std::out_of_range
\* past the end of the cell array; wavelengths_ is then left as it was.
resizeWavelengths(numWavelengths) ==
    LET numSamples == ResizedCells
        op == [op |-> "resizeWavelengths", numTheta |-> 0, numPhi |-> 0,
               colorModel |-> colorModel_, numWavelengths |-> numWavelengths]
    IN
    /\ life = "ok"
    /\ call' = call
    /\ UNCHANGED << colorModel_, thetaAngles_, phiAngles_,
                    equalIntervalTheta_, equalIntervalPhi_ >>
    /\ IF ~(numWavelengths > 0)
       THEN /\ life' = "aborted"
            /\ last' = op
            /\ UNCHANGED << spectra_, wavelengths_ >>
       ELSE /\ life' = "ok"
            /\ spectra_' = [i \in 1 .. Len(spectra_) |->
                              IF i <= numSamples THEN NewSpectrum(numWavelengths)
                              ELSE spectra_[i]]
            /\ IF numSamples > Len(spectra_)
               THEN /\ last' = [op EXCEPT !.op = "resizeWavelengths: out_of_range"]
                    /\ wavelengths_' = wavelengths_
               ELSE /\ last' = op
                    /\ wavelengths_' = EigenResize(wavelengths_, numWavelengths)

ResizeWavelengths ==
    /\ life = "ok"
    /\ \E numWavelengths \in WavelengthArgs : resizeWavelengths(numWavelengths)

\* The number of coefficients of an axis that differ between two values of it
Changed(before, after) ==
    Cardinality({ i \in 1 .. Len(before) : before[i] # after[i] })

\* An angle axis as the grid's data model wants it: every coefficient set and
\* each larger than the one before.
StrictlyAscending(arr) ==
    /\ \A i \in 1 .. Len(arr) : arr[i] # Uninit
    /\ \A i \in 1 .. Len(arr) - 1 : arr[i] < arr[i + 1]

\* SampleSet2D::clampAngles.  The record of the operation notes how many
\* coefficients the call changed and whether both axes were strictly
\* ascending when it was called.
clampAngles ==
    LET theta == [i \in 1 .. Len(thetaAngles_) |->
                    ClampCoeff(thetaAngles_[i], 0, MAX_ANGLE0)]
        phi   == [i \in 1 .. Len(phiAngles_) |->
                    ClampCoeff(phiAngles_[i], 0, MAX_ANGLE1)]
    IN
    /\ life = "ok"
    /\ thetaAngles_' = theta
    /\ phiAngles_' = phi
    /\ last' = [op |-> "clampAngles", numTheta |-> 0, numPhi |-> 0,
                colorModel |-> colorModel_, numWavelengths |-> 0,
                clamped |-> Changed(thetaAngles_, theta) + Changed(phiAngles_, phi),
                ascending |-> StrictlyAscending(thetaAngles_) /\
                              StrictlyAscending(phiAngles_)]
    /\ UNCHANGED << life, colorModel_, spectra_, wavelengths_,
                    equalIntervalTheta_, equalIntervalPhi_, call >>

\* The values an external builder stores: cell i of pattern p.  The second
\* pattern alternates a large and a small reflectance.
Patterns == {"ramp", "peaks"}

StoredValue(p, i) ==
    IF p = "ramp" THEN 24 * i
    ELSE IF i % 2 = 1 THEN 24 * FloatExact ELSE 24

\* The builder's setSpectrum over the whole grid: every cell gets a spectrum
\* of the grid's wavelength count.
Populate ==
    \E p \in Patterns :
        /\ life = "ok"
        /\ spectra_' = [i \in 1 .. Len(spectra_) |->
                          [k \in 1 .. Len(wavelengths_) |-> StoredValue(p, i)]]
        /\ last' = [op |-> "populate", numTheta |-> 0, numPhi |-> 0,
                    colorModel |-> colorModel_, numWavelengths |-> 0]
        /\ call' = NoCall
        /\ UNCHANGED << life, colorModel_, thetaAngles_, phiAngles_, wavelengths_,
                        equalIntervalTheta_, equalIntervalPhi_ >>

Next ==
    \/ Construct
    \/ Populate
    \/ ResizeAngles
    \/ ResizeWavelengths
    \/ clampAngles

Spec == Init /\ [][Next]_vars

---------------------------------------------------------------------------
(* The build phase of the angle axes: a grid is constructed, an external   *)
(* builder writes angle values (which a measurement file may give outside  *)
(* their domain), and clampAngles brings them back.                        *)

\* The angles a builder supplies, in units of pi/48: two below 0, one inside
\* [0, pi/2] and one above pi/2 for theta; one below 0 and two above 2*pi for
\* phi.
ThetaSupplied == { 0 - 12, 0 - 6, 12, 36 }

PhiSupplied == { 0 - 48, 120, 144 }

ConstructAxes ==
    /\ life = "none"
    /\ \E numTheta \in 1 .. MaxAxis, numPhi \in 1 .. MaxAxis,
          equalIntervalAngles \in BOOLEAN :
          Constructor(numTheta, numPhi, "MONOCHROMATIC_MODEL", 1,
                      equalIntervalAngles)

BuilderOp(name) == [op |-> name, numTheta |-> 0, numPhi |-> 0,
                    colorModel |-> colorModel_, numWavelengths |-> 0]

\* SampleSet2D::setTheta(index, angle), called by the builder
setTheta ==
    /\ life = "ok"
    /\ \E index \in 1 .. Len(thetaAngles_), angle \in ThetaSupplied :
          thetaAngles_' = [thetaAngles_ EXCEPT ![index] = angle]
    /\ last' = BuilderOp("setTheta")
    /\ UNCHANGED << life, colorModel_, phiAngles_, spectra_, wavelengths_,
                    equalIntervalTheta_, equalIntervalPhi_, call >>

\* SampleSet2D::setPhi(index, angle), called by the builder
setPhi ==
    /\ life = "ok"
    /\ \E index \in 1 .. Len(phiAngles_), angle \in PhiSupplied :
          phiAngles_' = [phiAngles_ EXCEPT ![index] = angle]
    /\ last' = BuilderOp("setPhi")
    /\ UNCHANGED << life, colorModel_, thetaAngles_, spectra_, wavelengths_,
                    equalIntervalTheta_, equalIntervalPhi_, call >>

NextAngles ==
    \/ ConstructAxes
    \/ setTheta
    \/ setPhi
    \/ clampAngles

SpecAngles == Init /\ [][NextAngles]_vars

---------------------------------------------------------------------------
(* Directions and the spherical coordinate system *)

\* Unit vectors, components in thousandths.
Dirs ==
    { Vec3(0, 0, 1000),
      Vec3(383, 0, 924), Vec3(0, 383, 924),
      Vec3(707, 0, 707), Vec3(0, 707, 707), Vec3(-707, 0, 707),
      Vec3(924, 0, 383), Vec3(0, -924, 383),
      Vec3(1000, 0, 0), Vec3(0, 1000, 0),
      Vec3(707, 0, -707), Vec3(0, 707, -707) }

\* std::acos on the z components of Dirs, in units of pi/48
Acos(z) ==
    CASE z = 1000 -> 0
      [] z = 924 -> 6
      [] z = 707 -> 12
      [] z = 383 -> 18
      [] z = 0 -> 24
      [] z = -383 -> 30
      [] z = -707 -> 36
      [] z = -924 -> 42
      [] z = -1000 -> 48

\* std::atan2 on the axis-aligned (y, x) of Dirs, in units of pi/48
Atan2(y, x) ==
    CASE y = 0 /\ x >= 0 -> 0
      [] x = 0 /\ y > 0 -> 24
      [] y = 0 /\ x < 0 -> 48
      [] x = 0 /\ y < 0 -> -24

\* SphericalCoordinateSystem::fromXyz(dir, &theta, &phi)
SphericalCoordinateSystem_fromXyz(dir) ==
    LET a == Atan2(dir.y, dir.x)
    IN [theta |-> Acos(dir.z), phi |-> IF a < 0 THEN a + MAX_ANGLE1 ELSE a]

---------------------------------------------------------------------------
(* SampleSet2D accessors and the linear interpolator *)

\* SampleSet2D::isIsotropic
isIsotropic == Len(phiAngles_) = 1

\* SampleSet2D::getSpectrum(thetaIndex, phiIndex), indices from 1
Cell(thetaIndex, phiIndex) ==
    spectra_[thetaIndex + Len(thetaAngles_) * (phiIndex - 1)]

\* The grid is built: every cell is written with the grid's wavelength count
\* and every angle is set.
Queryable ==
    /\ life = "ok"
    /\ Len(spectra_) = Len(thetaAngles_) * Len(phiAngles_)
    /\ \A i \in 1 .. Len(spectra_) :
          Written(spectra_[i]) /\ Len(spectra_[i]) = Len(wavelengths_)
    /\ \A i \in 1 .. Len(thetaAngles_) : thetaAngles_[i] # Uninit
    /\ \A i \in 1 .. Len(phiAngles_) : phiAngles_[i] # Uninit

\* The bracketing pairs of an ascending axis for an angle, with the weight
\* t = num/den of the upper index; the angle is clamped to the axis first.
\* An angle on an inner grid point is bracketed from both sides.
Brackets(arr, angle) ==
    LET n == Len(arr)
        a == Min(Max(angle, arr[1]), arr[n])
    IN IF n = 1
       THEN { [lo |-> 1, hi |-> 1, t |-> [num |-> 0, den |-> 1]] }
       ELSE { [lo |-> i, hi |-> i + 1,
               t |-> [num |-> a - arr[i], den |-> arr[i + 1] - arr[i]]] :
                 i \in { j \in 1 .. n - 1 : arr[j] <= a /\ a <= arr[j + 1] } }

lerp_fromUpper(v0, v1, t) == Fl(v1 + Fl(MulWeight(Fl(v1 - v0), t)))

\* lerp of Utility.h on floats: v0 + (v1 - v0) * t
lerp(v0, v1, t) == Fl(v0 + Fl(MulWeight(Fl(v1 - v0), t)))

\* lerp<Spectrum>: Eigen's array arithmetic is coefficient-wise
lerpSpectrum(s0, s1, t) == [k \in 1 .. Len(s0) |-> lerp(s0[k], s1[k], t)]

\* LinearInterpolator::getSpectrum(ss2, theta, spectrum)
LinearInterpolator_getSpectrum1(theta) ==
    { [spectrum |-> lerpSpectrum(Cell(b.lo, 1), Cell(b.hi, 1), b.t),
       lo |-> b.lo, hi |-> b.hi, t |-> b.t] :
         b \in Brackets(thetaAngles_, theta) }

\* LinearInterpolator::getSpectrum(ss2, theta, phi, spectrum)
LinearInterpolator_getSpectrum2(theta, phi) ==
    { [spectrum |->
          lerpSpectrum(
             lerpSpectrum(Cell(bt.lo, bp.lo), Cell(bt.hi, bp.lo), bt.t),
             lerpSpectrum(Cell(bt.lo, bp.hi), Cell(bt.hi, bp.hi), bt.t),
             bp.t),
       lo |-> bt.lo, hi |-> bt.hi, t |-> bt.t] :
         bt \in Brackets(thetaAngles_, theta), bp \in Brackets(phiAngles_, phi) }

---------------------------------------------------------------------------
(* Sampler.  Each operator gives the record of one query: whether the      *)
(* assertion stopped it, which fromXyz overload wrote which of the local   *)
(* variables angle0..angle3, and the interpolator call made.               *)

\* What CoordSysT::fromXyz / Brdf::fromXyz write: the coordinate system is a
\* template parameter, so the angles are arbitrary; these are samples of the
\* 3-angle and of the 4-angle overload's results.
Conv3 == { << 0, 12, 24 >>, << 12, 24, 0 >> }

Conv4 == { << 0, 12, 24, 36 >>, << 36, 24, 12, 0 >> }

WavelengthIndices == {0, 1}

Stopped(fn, inDir) ==
    [fn |-> fn, inDir |-> inDir, aborted |-> TRUE, iso |-> FALSE,
     conv |-> "none", angles |-> << >>, interpFn |-> "none",
     interp |-> << >>, wavelengthIndex |-> 0, out |-> << >>]

\* Sampler::getSpectrum(const SampleSet&, inDir, outDir, spectrum)
Sampler_getSpectrum_SampleSet(isIso, inDir, outDir, c3, c4) ==
    IF ~(inDir.z >= 0) THEN Stopped("getSpectrum(SampleSet)", inDir)
    ELSE IF isIso
    THEN LET angle0 == c3[1]  angle1 == Uninit  angle2 == c3[2]  angle3 == c3[3]
         IN [fn |-> "getSpectrum(SampleSet)", inDir |-> inDir, aborted |-> FALSE,
             iso |-> isIso, conv |-> "fromXyz3",
             angles |-> << angle0, angle1, angle2, angle3 >>,
             interpFn |-> "getSpectrum", interp |-> << angle0, angle2, angle3 >>,
             wavelengthIndex |-> 0, out |-> << >>]
    ELSE LET angle0 == c4[1]  angle1 == c4[2]  angle2 == c4[3]  angle3 == c4[4]
         IN [fn |-> "getSpectrum(SampleSet)", inDir |-> inDir, aborted |-> FALSE,
             iso |-> isIso, conv |-> "fromXyz4",
             angles |-> << angle0, angle1, angle2, angle3 >>,
             interpFn |-> "getSpectrum",
             interp |-> << angle0, angle1, angle2, angle3 >>,
             wavelengthIndex |-> 0, out |-> << >>]

\* Sampler::getValue(const SampleSet&, inDir, outDir, wavelengthIndex)
Sampler_getValue_SampleSet(isIso, inDir, outDir, wavelengthIndex, c3, c4) ==
    IF ~(inDir.z >= 0) THEN Stopped("getValue(SampleSet)", inDir)
    ELSE IF isIso
    THEN LET angle0 == c3[1]  angle1 == Uninit  angle2 == c3[2]  angle3 == c3[3]
         IN [fn |-> "getValue(SampleSet)", inDir |-> inDir, aborted |-> FALSE,
             iso |-> isIso, conv |-> "fromXyz3",
             angles |-> << angle0, angle1, angle2, angle3 >>,
             interpFn |-> "getValue", interp |-> << angle0, angle2, angle3 >>,
             wavelengthIndex |-> wavelengthIndex, out |-> << >>]
    ELSE LET angle0 == c4[1]  angle1 == c4[2]  angle2 == c4[3]  angle3 == c4[4]
         IN [fn |-> "getValue(SampleSet)", inDir |-> inDir, aborted |-> FALSE,
             iso |-> isIso, conv |-> "fromXyz4",
             angles |-> << angle0, angle1, angle2, angle3 >>,
             interpFn |-> "getValue",
             interp |-> << angle0, angle1, angle2, angle3 >>,
             wavelengthIndex |-> wavelengthIndex, out |-> << >>]

\* Sampler::getSpectrum(const Brdf&, inDir, outDir, spectrum)
Sampler_getSpectrum_Brdf(isIso, inDir, outDir, c3, c4) ==
    IF ~(inDir.z >= 0) THEN Stopped("getSpectrum(Brdf)", inDir)
    ELSE IF isIso
    THEN LET angle0 == c3[1]  angle1 == Uninit  angle2 == c3[2]  angle3 == c3[3]
         IN [fn |-> "getSpectrum(Brdf)", inDir |-> inDir, aborted |-> FALSE,
             iso |-> isIso, conv |-> "fromXyz3",
             angles |-> << angle0, angle1, angle2, angle3 >>,
             interpFn |-> "getSpectrum", interp |-> << angle0, angle2, angle3 >>,
             wavelengthIndex |-> 0, out |-> << >>]
    ELSE LET angle0 == c4[1]  angle1 == c4[2]  angle2 == c4[3]  angle3 == c4[4]
         IN [fn |-> "getSpectrum(Brdf)", inDir |-> inDir, aborted |-> FALSE,
             iso |-> isIso, conv |-> "fromXyz4",
             angles |-> << angle0, angle1, angle2, angle3 >>,
             interpFn |-> "getSpectrum",
             interp |-> << angle0, angle1, angle2, angle3 >>,
             wavelengthIndex |-> 0, out |-> << >>]

Sampler_getValue_Brdf_mixed(isIso, inDir, outDir, wavelengthIndex, c3, c4) ==
    IF ~(inDir.z >= 0) THEN Stopped("getValue(Brdf)", inDir)
    ELSE LET angle0 == c3[1]  angle1 == Uninit  angle2 == c3[2]  angle3 == c3[3]
         IN [fn |-> "getValue(Brdf)", inDir |-> inDir, aborted |-> FALSE,
             iso |-> isIso, conv |-> "fromXyz3",
             angles |-> << angle0, angle1, angle2, angle3 >>,
             interpFn |-> "getValue",
             interp |-> IF isIso THEN << angle0, angle1, angle2, angle3 >>
                        ELSE << angle0, angle2, angle3 >>,
             wavelengthIndex |-> wavelengthIndex, out |-> << >>]

\* Sampler::getValue(const Brdf&, inDir, outDir, wavelengthIndex)
Sampler_getValue_Brdf(isIso, inDir, outDir, wavelengthIndex, c3, c4) ==
    IF ~(inDir.z >= 0) THEN Stopped("getValue(Brdf)", inDir)
    ELSE IF isIso
    THEN LET angle0 == c3[1]  angle1 == Uninit  angle2 == c3[2]  angle3 == c3[3]
         IN [fn |-> "getValue(Brdf)", inDir |-> inDir, aborted |-> FALSE,
             iso |-> isIso, conv |-> "fromXyz3",
             angles |-> << angle0, angle1, angle2, angle3 >>,
             interpFn |-> "getValue", interp |-> << angle0, angle2, angle3 >>,
             wavelengthIndex |-> wavelengthIndex, out |-> << >>]
    ELSE LET angle0 == c4[1]  angle1 == c4[2]  angle2 == c4[3]  angle3 == c4[4]
         IN [fn |-> "getValue(Brdf)", inDir |-> inDir, aborted |-> FALSE,
             iso |-> isIso, conv |-> "fromXyz4",
             angles |-> << angle0, angle1, angle2, angle3 >>,
             interpFn |-> "getValue",
             interp |-> << angle0, angle1, angle2, angle3 >>,
             wavelengthIndex |-> wavelengthIndex, out |-> << >>]

Sampler_getSpectrum_SampleSet2D_always2(inDir) ==
    LET a == SphericalCoordinateSystem_fromXyz(inDir)
    IN { [fn |-> "getSpectrum(SampleSet2D)", inDir |-> inDir, aborted |-> FALSE,
          iso |-> isIsotropic, conv |-> "fromXyz2",
          angles |-> << a.theta, a.phi >>,
          interpFn |-> "getSpectrum", interp |-> << a.theta, a.phi >>,
          wavelengthIndex |-> 0, out |-> r] :
            r \in LinearInterpolator_getSpectrum2(a.theta, a.phi) }

\* Sampler::getSpectrum(const SampleSet2D&, inDir, spectrum): the records of
\* the query, one per bracket the interpolator may take.
Sampler_getSpectrum_SampleSet2D(inDir) ==
    IF isIsotropic
    THEN LET inTheta == Acos(inDir.z)  inPhi == Uninit
         IN { [fn |-> "getSpectrum(SampleSet2D)", inDir |-> inDir, aborted |-> FALSE,
               iso |-> TRUE, conv |-> "acos",
               angles |-> << inTheta, inPhi >>,
               interpFn |-> "getSpectrum", interp |-> << inTheta >>,
               wavelengthIndex |-> 0, out |-> r] :
                 r \in LinearInterpolator_getSpectrum1(inTheta) }
    ELSE LET a == SphericalCoordinateSystem_fromXyz(inDir)
         IN { [fn |-> "getSpectrum(SampleSet2D)", inDir |-> inDir, aborted |-> FALSE,
               iso |-> FALSE, conv |-> "fromXyz2",
               angles |-> << a.theta, a.phi >>,
               interpFn |-> "getSpectrum", interp |-> << a.theta, a.phi >>,
               wavelengthIndex |-> 0, out |-> r] :
                 r \in LinearInterpolator_getSpectrum2(a.theta, a.phi) }

---------------------------------------------------------------------------
(* The query phase: a grid built with evenly spaced axes, populated, then  *)
(* queried.                                                                *)

MaxGridAngles == 3

ConstructEvenGrid ==
    /\ life = "none"
    /\ \E numTheta \in 1 .. MaxGridAngles, numPhi \in 1 .. MaxAxis,
          colorModel \in {"MONOCHROMATIC_MODEL", "RGB_MODEL"} :
          Constructor(numTheta, numPhi, colorModel, 1, TRUE)

\* A failed assertion of a Sampler function aborts the process.
Record(c) ==
    /\ call' = c
    /\ life' = IF c.aborted THEN "aborted" ELSE life
    /\ UNCHANGED << colorModel_, thetaAngles_, phiAngles_, spectra_, wavelengths_,
                    equalIntervalTheta_, equalIntervalPhi_, last >>

\* SampleSet2D::getSpectrum(inDir)
getSpectrum ==
    /\ Queryable
    /\ \E inDir \in Dirs :
          \E c \in Sampler_getSpectrum_SampleSet2D(inDir) : Record(c)

QueryDirs == { Vec3(0, 0, 1000), Vec3(1000, 0, 0), Vec3(707, 0, -707) }

OutDirs == { Vec3(0, 0, 1000), Vec3(0, 707, -707) }

GetSpectrumSampleSet ==
    /\ life = "ok"
    /\ \E isIso \in BOOLEAN, inDir \in QueryDirs, outDir \in OutDirs,
          c3 \in Conv3, c4 \in Conv4 :
          Record(Sampler_getSpectrum_SampleSet(isIso, inDir, outDir, c3, c4))

GetValueSampleSet ==
    /\ life = "ok"
    /\ \E isIso \in BOOLEAN, inDir \in QueryDirs, outDir \in OutDirs,
          wavelengthIndex \in WavelengthIndices, c3 \in Conv3, c4 \in Conv4 :
          Record(Sampler_getValue_SampleSet(isIso, inDir, outDir, wavelengthIndex,
                                            c3, c4))

GetSpectrumBrdf ==
    /\ life = "ok"
    /\ \E isIso \in BOOLEAN, inDir \in QueryDirs, outDir \in OutDirs,
          c3 \in Conv3, c4 \in Conv4 :
          Record(Sampler_getSpectrum_Brdf(isIso, inDir, outDir, c3, c4))

GetValueBrdf ==
    /\ life = "ok"
    /\ \E isIso \in BOOLEAN, inDir \in QueryDirs, outDir \in OutDirs,
          wavelengthIndex \in WavelengthIndices, c3 \in Conv3, c4 \in Conv4 :
          Record(Sampler_getValue_Brdf(isIso, inDir, outDir, wavelengthIndex,
                                       c3, c4))

NextSampler ==
    \/ ConstructEvenGrid
    \/ Populate
    \/ getSpectrum
    \/ GetSpectrumSampleSet
    \/ GetValueSampleSet
    \/ GetSpectrumBrdf
    \/ GetValueBrdf

SpecSampler == Init /\ [][NextSampler]_vars

---------------------------------------------------------------------------
(* Claims about SampleSet2D, checked under Spec *)

\* C1: after resizeWavelengths(n) with n > 0, in any reachable grid state,
\* every cell's spectrum has length n and the wavelength array has length n.
C1_ResizeWavelengthsLengths ==
    (life = "ok" /\ last.op = "resizeWavelengths") =>
        /\ \A i \in 1 .. Len(spectra_) : Len(spectra_[i]) = last.numWavelengths
        /\ Len(wavelengths_) = last.numWavelengths

\* C1 witness: a monochromatic 2x2 grid resized from 1 to 2 wavelengths.
C1_Witness ==
    /\ life = "ok"
    /\ last.op = "resizeWavelengths"
    /\ last.numWavelengths = 2
    /\ colorModel_ = "MONOCHROMATIC_MODEL"
    /\ Len(spectra_) = 4

\* C2: in every reachable state of a constructed grid every cell's spectrum
\* has the length of the wavelength array.
C2_SpectraMatchWavelengths ==
    life = "ok" =>
        \A i \in 1 .. Len(spectra_) : Len(spectra_[i]) = Len(wavelengths_)

\* C3: in every reachable state of a constructed grid the number of cells is
\* the number of theta angles times the number of phi angles.
C3_CellCountIsProduct ==
    life = "ok" => Len(spectra_) = Len(thetaAngles_) * Len(phiAngles_)

\* C3 witness: resizeAngles has just changed a grid to 2 x 1.
C3_Witness ==
    /\ life = "ok"
    /\ last.op = "resizeAngles"
    /\ Len(thetaAngles_) = 2
    /\ Len(phiAngles_) = 1
    /\ Len(spectra_) = 2

\* C4: resizeAngles(numTheta, numPhi) leaves numTheta*numPhi cells, none of
\* which still holds the spectrum a builder had stored in it before the call.
C4_ResizeAnglesDiscardsSpectra ==
    [][ (last'.op = "resizeAngles" /\ life' = "ok") =>
            /\ Len(spectra_') = last'.numTheta * last'.numPhi
            /\ \A i \in 1 .. Min(Len(spectra_), Len(spectra_')) :
                  Written(spectra_[i]) => spectra_'[i] # spectra_[i] ]_vars

\* C5: the color model fixes the wavelength count: 1 for a monochromatic
\* grid, 3 for an RGB-like grid, the count asked for (by the constructor or
\* by resizeWavelengths, whichever has just run) in a spectral grid.
C5_ColorModelFixesCount ==
    life = "ok" =>
        /\ colorModel_ = "MONOCHROMATIC_MODEL" => Len(wavelengths_) = 1
        /\ NonSpectral(colorModel_) => Len(wavelengths_) = 3
        /\ (colorModel_ = "SPECTRAL_MODEL" /\
            last.op \in {"constructor", "resizeWavelengths"})
              => Len(wavelengths_) = last.numWavelengths

\* C6 as stated: a non-positive axis length or wavelength count aborts the
\* constructor for every color model, and resizeAngles / resizeWavelengths
\* abort on a non-positive argument.
C6_NonPositiveAlwaysAborts ==
    /\ (last.op = "constructor" /\
        (last.numTheta <= 0 \/ last.numPhi <= 0 \/ last.numWavelengths <= 0))
          => life = "aborted"
    /\ (last.op = "resizeAngles" /\ (last.numTheta <= 0 \/ last.numPhi <= 0))
          => life = "aborted"
    /\ (last.op = "resizeWavelengths" /\ last.numWavelengths <= 0)
          => life = "aborted"

\* C6 amended: the constructor aborts on a non-positive axis length for every
\* color model and on a non-positive wavelength count for SPECTRAL_MODEL; for
\* the other color models the count asked for is replaced by 1 or 3 before
\* the assertion, and the grid is built.  resizeAngles and resizeWavelengths
\* abort on a non-positive argument.  Nothing runs on an aborted grid.
C6_NonPositiveAborts ==
    /\ (last.op = "constructor" /\
        (last.numTheta <= 0 \/ last.numPhi <= 0 \/
         (last.colorModel = "SPECTRAL_MODEL" /\ last.numWavelengths <= 0)))
          => life = "aborted"
    /\ (last.op = "constructor" /\ last.numTheta > 0 /\ last.numPhi > 0 /\
        last.colorModel # "SPECTRAL_MODEL" /\ last.numWavelengths <= 0)
          => /\ life = "ok"
             /\ Len(wavelengths_) =
                   (IF last.colorModel = "MONOCHROMATIC_MODEL" THEN 1 ELSE 3)
    /\ (last.op = "resizeAngles" /\ (last.numTheta <= 0 \/ last.numPhi <= 0))
          => life = "aborted"
    /\ (last.op = "resizeWavelengths" /\ last.numWavelengths <= 0)
          => life = "aborted"
    /\ life = "aborted" => ~ENABLED Next

\* C6 witness: a spectral grid asked for with no wavelength has aborted.
C6_Witness ==
    /\ life = "aborted"
    /\ last.op = "constructor"
    /\ last.colorModel = "SPECTRAL_MODEL"
    /\ last.numTheta > 0
    /\ last.numPhi > 0
    /\ last.numWavelengths <= 0

---------------------------------------------------------------------------
(* Claims about the Sampler, checked under SpecSampler *)

DirectionPairQueries ==
    { "getSpectrum(SampleSet)", "getValue(SampleSet)",
      "getSpectrum(Brdf)", "getValue(Brdf)" }

\* C7: every Sampler query called with inDir.z < 0 is stopped by its
\* assertion before any coordinate conversion or interpolator call.
C7_NegativeZAborts ==
    (call.fn # "none" /\ call.inDir.z < 0) =>
        /\ call.aborted
        /\ call.conv = "none"
        /\ call.interpFn = "none"

\* C8: in each of the four direction-pair overloads an isotropic grid gets
\* the 3-angle fromXyz and the 3-angle interpolator called with (angle0,
\* angle2, angle3), angle1 being left unwritten, and any other grid gets the
\* 4-angle fromXyz and the 4-angle interpolator called with (angle0, angle1,
\* angle2, angle3); getSpectrum calls the interpolator's getSpectrum and
\* getValue its getValue.
C8_DispatchIsUniform ==
    (call.fn \in DirectionPairQueries /\ ~call.aborted) =>
        /\ IF call.iso
           THEN /\ call.conv = "fromXyz3"
                /\ call.angles[2] = Uninit
                /\ call.interp = << call.angles[1], call.angles[3], call.angles[4] >>
                /\ \A i \in 1 .. 3 : call.interp[i] # Uninit
           ELSE /\ call.conv = "fromXyz4"
                /\ call.interp = call.angles
                /\ \A i \in 1 .. 4 : call.interp[i] # Uninit
        /\ call.interpFn =
              (IF call.fn \in {"getSpectrum(SampleSet)", "getSpectrum(Brdf)"}
               THEN "getSpectrum" ELSE "getValue")

\* C8 witness: getValue on a Brdf with an isotropic sample set has run.
C8_Witness ==
    /\ call.fn = "getValue(Brdf)"
    /\ ~call.aborted
    /\ call.iso
    /\ call.wavelengthIndex = 1

\* C9: on an isotropic SampleSet2D the 2-axis query passes acos(inDir.z)
\* alone to the interpolator, and what it returned is also what a query with
\* any direction of the same z returns; otherwise it passes the polar and the
\* azimuthal angle.
C9_IsotropicUsesPolarAngleOnly ==
    call.fn = "getSpectrum(SampleSet2D)" =>
        /\ call.iso = isIsotropic
        /\ IF isIsotropic
           THEN /\ call.interp = << Acos(call.inDir.z) >>
                /\ \A d \in Dirs :
                      d.z = call.inDir.z =>
                         \E c \in Sampler_getSpectrum_SampleSet2D(d) :
                            c.interp = call.interp /\ c.out = call.out
           ELSE call.interp =
                   << Acos(call.inDir.z),
                      SphericalCoordinateSystem_fromXyz(call.inDir).phi >>

\* C9 witness: an isotropic 3-angle grid with distinct cells, queried off the
\* x axis at 45 degrees.
C9_Witness ==
    /\ call.fn = "getSpectrum(SampleSet2D)"
    /\ call.iso
    /\ call.inDir = Vec3(0, 707, 707)
    /\ Len(thetaAngles_) = 3
    /\ Cell(1, 1) # Cell(2, 1)

\* The 2-axis query has run on a grid of polar angles only, evenly spaced.
PolarQuery ==
    /\ call.fn = "getSpectrum(SampleSet2D)"
    /\ call.iso
    /\ equalIntervalTheta_

Half == [num |-> 1, den |-> 2]

\* The midpoint part of C10: between two adjacent grid angles the result is
\* v0 + (v1 - v0) * 0.5 of the two stored neighbours.
MidpointBlend ==
    \A i \in 1 .. Len(thetaAngles_) - 1 :
        2 * call.interp[1] = thetaAngles_[i] + thetaAngles_[i + 1] =>
            \A k \in 1 .. Len(wavelengths_) :
                call.out.spectrum[k] =
                    Fl(Cell(i, 1)[k] +
                       Fl(MulWeight(Fl(Cell(i + 1, 1)[k] - Cell(i, 1)[k]), Half)))

---------------------------------------------------------------------------
(* Claims about the angle axes, checked under SpecAngles and Spec *)

\* What clamping to [0, max] makes of a value v: w lies in the domain, and is
\* v itself, 0 or max according to where v lay.
ClampedInto(v, w, max) ==
    /\ 0 <= w /\ w <= max
    /\ (0 <= v /\ v <= max) => w = v
    /\ v < 0 => w = 0
    /\ v > max => w = max

\* C11: after clampAngles() every theta value lies in [0, MAX_ANGLE0] and
\* every phi value in [0, MAX_ANGLE1]: a value inside its domain is unchanged,
\* a value below 0 becomes 0, a value above the maximum becomes the maximum
\* (which is what clamp of Utility.h gives); the axis lengths, the spectra,
\* the wavelengths and the equal-interval flags are unchanged, and a
\* clampAngles() that follows a clampAngles() changes no angle.  The values
\* are those of the coefficients that hold one: a coefficient nothing has
\* written has no determinate value to compare.
C11_ClampAnglesEffect ==
    [][ last'.op = "clampAngles" =>
            /\ Len(thetaAngles_') = Len(thetaAngles_)
            /\ Len(phiAngles_') = Len(phiAngles_)
            /\ \A i \in 1 .. Len(thetaAngles_) :
                  thetaAngles_[i] # Uninit =>
                      /\ ClampedInto(thetaAngles_[i], thetaAngles_'[i], MAX_ANGLE0)
                      /\ thetaAngles_'[i] = clamp(thetaAngles_[i], 0, MAX_ANGLE0)
            /\ \A i \in 1 .. Len(phiAngles_) :
                  phiAngles_[i] # Uninit =>
                      /\ ClampedInto(phiAngles_[i], phiAngles_'[i], MAX_ANGLE1)
                      /\ phiAngles_'[i] = clamp(phiAngles_[i], 0, MAX_ANGLE1)
            /\ spectra_' = spectra_
            /\ wavelengths_' = wavelengths_
            /\ equalIntervalTheta_' = equalIntervalTheta_
            /\ equalIntervalPhi_' = equalIntervalPhi_
            /\ last.op = "clampAngles" =>
                  (thetaAngles_' = thetaAngles_ /\ phiAngles_' = phiAngles_)
      ]_vars

\* C11 witness: clampAngles has changed two coefficients of a 2 x 2 grid: a
\* theta below 0 became 0 and a phi above 2*pi became 2*pi, while the theta
\* inside its domain was kept and the phi the builder never set stayed
\* unwritten.
C11_Witness ==
    /\ life = "ok"
    /\ last.op = "clampAngles"
    /\ last.clamped = 2
    /\ thetaAngles_ = << 0, 12 >>
    /\ phiAngles_ = << Uninit, 96 >>

\* C12: the cached equal-interval flags are truthful in every reachable state
\* of a constructed grid: equalIntervalTheta_ is true only if thetaAngles_
\* holds evenly spaced values now, equalIntervalPhi_ only if phiAngles_ does;
\* right after a construction with equalIntervalAngles the axes are the even
\* fills of [0, MAX_ANGLE0] and [0, MAX_ANGLE1] and the flags are recomputed
\* from them, and right after one without it both flags are false.
C12_FlagsTruthful ==
    life = "ok" =>
        /\ equalIntervalTheta_ => isEqualInterval(thetaAngles_)
        /\ equalIntervalPhi_ => isEqualInterval(phiAngles_)
        /\ last.op = "constructor" =>
              IF last.equalIntervalAngles
              THEN /\ thetaAngles_ = LinSpaced(last.numTheta, 0, MAX_ANGLE0)
                   /\ phiAngles_ = LinSpaced(last.numPhi, 0, MAX_ANGLE1)
                   /\ equalIntervalTheta_ = isEqualInterval(thetaAngles_)
                   /\ equalIntervalPhi_ = isEqualInterval(phiAngles_)
              ELSE ~equalIntervalTheta_ /\ ~equalIntervalPhi_

\* Ascending, equal neighbours allowed
Ascending(arr) ==
    /\ \A i \in 1 .. Len(arr) : arr[i] # Uninit
    /\ \A i \in 1 .. Len(arr) - 1 : arr[i] <= arr[i + 1]

\* At most one value of the axis is at or below 0 and at most one at or
\* above the maximum of its domain.
AtMostOneBeyondEachEnd(arr, max) ==
    /\ Cardinality({ i \in 1 .. Len(arr) : arr[i] <= 0 }) <= 1
    /\ Cardinality({ i \in 1 .. Len(arr) : arr[i] >= max }) <= 1

\* C13: clampAngles() preserves the strictly ascending order of each axis: if
\* thetaAngles_ and phiAngles_ are strictly increasing before the call, with
\* values possibly outside their domains, they are strictly increasing after
\* it.
C13_ClampKeepsStrictOrder ==
    [][ (last'.op = "clampAngles" /\ StrictlyAscending(thetaAngles_)
                                  /\ StrictlyAscending(phiAngles_)) =>
            /\ StrictlyAscending(thetaAngles_')
            /\ StrictlyAscending(phiAngles_')
      ]_vars

\* C13 as amended: if both axes are strictly increasing before clampAngles(),
\* both are ascending after it, and an axis is still strictly increasing
\* exactly when at most one of its values was at or below 0 and at most one
\* at or above the maximum of its domain.
C13_ClampKeepsOrder ==
    [][ (last'.op = "clampAngles" /\ StrictlyAscending(thetaAngles_)
                                  /\ StrictlyAscending(phiAngles_)) =>
            /\ Ascending(thetaAngles_')
            /\ Ascending(phiAngles_')
            /\ StrictlyAscending(thetaAngles_') <=>
                  AtMostOneBeyondEachEnd(thetaAngles_, MAX_ANGLE0)
            /\ StrictlyAscending(phiAngles_') <=>
                  AtMostOneBeyondEachEnd(phiAngles_, MAX_ANGLE1)
      ]_vars

\* C13 witness: clampAngles was called on two strictly ascending axes and
\* changed three coefficients; theta, with one value below 0, is still
\* strictly ascending, and phi, with two values above 2*pi, has two equal
\* neighbours.
C13_Witness ==
    /\ life = "ok"
    /\ last.op = "clampAngles"
    /\ last.ascending
    /\ last.clamped = 3
    /\ thetaAngles_ = << 0, 12 >>
    /\ phiAngles_ = << 96, 96 >>

===========================================================================
